---- MODULE Spec2Model ----
(***************************************************************************)
(* Model of src/main.py: the "top 100 crypto" acquisition pipeline.        *)
(*                                                                         *)
(* The script is one sequential process.  Its state is the module-level    *)
(* Python variables (top_coins, successful_count, failed_downloads,        *)
(* crypto_directory_data, files_metadata, coin_name, coin_symbol, df), the *)
(* position of the interpreter (pc), and the files it has written.  The    *)
(* two providers (CoinGecko ranking, yfinance history) and the disk are    *)
(* the environment: what they answer is fixed per candidate when the       *)
(* ranking call returns, and read by the steps that call them.             *)
(***************************************************************************)
EXTENDS Integers, Sequences, FiniteSets, TLC

(***************************************************************************)
(* Bounds of the model.  The source asks for 150 candidates and stops at   *)
(* 100 successes (main.py:30, main.py:37); both are scaled down.           *)
(***************************************************************************)
MaxCoins == 3

TARGET_COUNT == 2

MaxRows == 31

(* rolling(window=7) and rolling(window=30), main.py:66-67 *)
SMA_7_WINDOW == 7

SMA_30_WINDOW == 30

(***************************************************************************)
(* Small helpers.                                                          *)
(***************************************************************************)
Range(s) == {s[k] : k \in 1..Len(s)}

Min(a, b) == IF a <= b THEN a ELSE b

NotWritten == <<>>

Written(content) == <<content>>

Unbound == 0

(***************************************************************************)
(* Tables.  A table is its number of rows, its ordered column names, and   *)
(* for each derived column the number of leading rows whose value is NaN.  *)
(***************************************************************************)
DerivedColumns == {"Daily_Return", "High_Low_Spread", "SMA_7", "SMA_30"}

NoNaN == [c \in DerivedColumns |-> 0]

Table(n, cs) == [rows |-> n, cols |-> cs, nan |-> NoNaN]

NoTable == Table(0, <<>>)

HasColumn(t, c) == c \in Range(t.cols)

(* what yfinance's Ticker.history returns: a Date index and these columns *)
YF_COLUMNS == <<"Open", "High", "Low", "Close", "Volume", "Dividends", "Stock Splits">>

Without(cs, c) == SelectSeq(cs, LAMBDA x : x # c)

(* COLUMN_DESCRIPTIONS, main.py:15-26: the canonical field list, in order *)
COLUMN_DESCRIPTIONS == <<"Date", "Open", "High", "Low", "Close", "Volume", "Daily_Return", "High_Low_Spread", "SMA_7", "SMA_30">>

(* columns, main.py:73-74 *)
columns == <<"Date", "Open", "High", "Low", "Close", "Volume", "Daily_Return", "High_Low_Spread", "SMA_7", "SMA_30">>

(* dir_columns, main.py:129-133 *)
dir_columns == <<"Index", "Crypto Name", "File Name">>

(***************************************************************************)
(* Feature computation, main.py:64-75.                                     *)
(***************************************************************************)
(* assigning df[c] appends the column when it is new, overwrites it otherwise *)
AddColumn(t, c, k) == [t EXCEPT !.cols = IF HasColumn(t, c) THEN @ ELSE Append(@, c), !.nan[c] = k]

(* rolling(window=w).mean() is NaN until w rows are available (min_periods = w) *)
LeadingNaNOffByOne(window, n) == Min(window, n)

LeadingNaN(window, n) == Min(window - 1, n)

(* lines 64-67 read Close, High and Low; a missing one raises KeyError *)
CanEnrich(t) == HasColumn(t, "Close") /\ HasColumn(t, "High") /\ HasColumn(t, "Low")

(* lines 64-67: the four derived columns are assigned whatever the length *)
Enrich(t) == AddColumn(AddColumn(AddColumn(AddColumn(t, "Daily_Return", LeadingNaN(2, t.rows)), "High_Low_Spread", 0), "SMA_7", LeadingNaN(SMA_7_WINDOW, t.rows)), "SMA_30", LeadingNaN(SMA_30_WINDOW, t.rows))

(* line 70: the Date index becomes the first column *)
ResetIndex(t) == [t EXCEPT !.cols = <<"Date">> \o @]

(* line 75: df[columns] raises KeyError unless every listed column exists *)
CanSelect(t, cs) == Range(cs) \subseteq Range(t.cols)

KeepAllColumns(t, cs) == t

SelectColumns(t, cs) == [t EXCEPT !.cols = cs]

(***************************************************************************)
(* The environment: one record per ranked candidate, holding what the      *)
(* ranking provider put in the record (fields), what the history provider  *)
(* answers for its ticker (hist) and whether the CSV write succeeds (disk).*)
(* The CoinGecko id of the candidate of rank k is modelled as k.           *)
(***************************************************************************)
Response(raises, n, cs) == [raises |-> raises, rows |-> n, cols |-> cs]

Coin(k, fields, hist, disk) == [id |-> k, symbol |-> <<"sym", k>>, fields |-> fields, hist |-> hist, disk |-> disk]

HistoryLengths == {0, 9, 10, MaxRows}

CoinCases(k) ==
    {Coin(k, "no_id", Response(FALSE, 10, YF_COLUMNS), "ok"),
     Coin(k, "no_symbol", Response(FALSE, 10, YF_COLUMNS), "ok"),
     Coin(k, "ok", Response(TRUE, 0, <<>>), "ok"),
     Coin(k, "ok", Response(FALSE, 10, Without(YF_COLUMNS, "Close")), "ok"),
     Coin(k, "ok", Response(FALSE, 10, Without(YF_COLUMNS, "Volume")), "ok"),
     Coin(k, "ok", Response(FALSE, 10, YF_COLUMNS), "fail")}
    \cup {Coin(k, "ok", Response(FALSE, n, YF_COLUMNS), "ok") : n \in HistoryLengths}

RECURSIVE ListsOfLength(_)
ListsOfLength(n) == IF n = 0 THEN {<<>>} ELSE {Append(s, c) : s \in ListsOfLength(n - 1), c \in CoinCases(n)}

(* what get_coins_markets may return: up to MaxCoins candidates in rank order *)
RankedLists == UNION {ListsOfLength(n) : n \in 0..MaxCoins}

(* str.upper(), main.py:47 *)
Upper(sym) == <<"SYM", sym[2]>>

(* f"{coin_name}_{coin_symbol}.csv", main.py:78 *)
Filename(name, sym) == <<name, "_", sym, ".csv">>

(***************************************************************************)
(* State.                                                                  *)
(***************************************************************************)
VARIABLES
    pc,                     \* position of the interpreter
    ranking_ok,             \* environment: does the ranking call return?
    top_coins,              \* main.py:30
    i,                      \* loop index of enumerate(top_coins, 1)
    coin_name,              \* main.py:46, Unbound until first assigned
    coin_symbol,            \* main.py:47
    df,                     \* main.py:56
    successful_count,       \* main.py:35
    failed_downloads,       \* main.py:36
    crypto_directory_data,  \* main.py:34
    files_metadata,         \* main.py:33
    dirs_made,              \* crypto_data/crypto_top100 exists (main.py:12)
    asset_files,            \* the CSV files written by line 80, in order
    directory_csv,          \* crypto_directory.csv (main.py:125)
    metadata_json,          \* dataset-metadata.json (main.py:287-288)
    fetch_log,              \* history: every ticker.history call made
    outcomes                \* history: how each examined candidate ended

vars == <<pc, ranking_ok, top_coins, i, coin_name, coin_symbol, df, successful_count, failed_downloads, crypto_directory_data, files_metadata, dirs_made, asset_files, directory_csv, metadata_json, fetch_log, outcomes>>

env == <<ranking_ok, top_coins>>

locals == <<coin_name, coin_symbol, df>>

counters == <<successful_count, failed_downloads>>

lists == <<crypto_directory_data, files_metadata>>

disk == <<dirs_made, asset_files, directory_csv, metadata_json>>

coin == top_coins[i]

LoopPositions == {"loop", "read_fields", "fetch", "check_empty", "features", "save", "record", "except"}

Init ==
    /\ pc = "makedirs"
    /\ ranking_ok \in BOOLEAN
    /\ top_coins = <<>>
    /\ i = 1
    /\ coin_name = Unbound
    /\ coin_symbol = <<>>
    /\ df = NoTable
    /\ successful_count = 0
    /\ failed_downloads = 0
    /\ crypto_directory_data = <<>>
    /\ files_metadata = <<>>
    /\ dirs_made = FALSE
    /\ asset_files = <<>>
    /\ directory_csv = NotWritten
    /\ metadata_json = NotWritten
    /\ fetch_log = <<>>
    /\ outcomes = <<>>

(* main.py:12 *)
MakeDirs ==
    /\ pc = "makedirs"
    /\ dirs_made' = TRUE
    /\ pc' = "ranking"
    /\ UNCHANGED <<env, i, locals, counters, lists, asset_files, directory_csv, metadata_json, fetch_log, outcomes>>

(* main.py:30: an exception of the ranking call is not caught *)
RankingCallSwallowsFailure ==
    /\ pc = "ranking"
    /\ IF ranking_ok THEN top_coins' \in RankedLists ELSE top_coins' = <<>>
    /\ pc' = "loop"
    /\ UNCHANGED <<ranking_ok, i, locals, counters, lists, disk, fetch_log, outcomes>>

RankingCall ==
    /\ pc = "ranking"
    /\ IF ranking_ok
       THEN /\ top_coins' \in RankedLists
            /\ pc' = "loop"
       ELSE /\ top_coins' = top_coins
            /\ pc' = "uncaught"
    /\ UNCHANGED <<ranking_ok, i, locals, counters, lists, disk, fetch_log, outcomes>>

(* main.py:41 *)
TargetReachedOffByOne(count) == count > TARGET_COUNT

TargetReached(count) == count >= TARGET_COUNT

(* main.py:40-43: next candidate, or leave the loop (exhausted, or break) *)
LoopHead ==
    /\ pc = "loop"
    /\ IF i > Len(top_coins) \/ TargetReached(successful_count)
       THEN pc' = "write_index"
       ELSE pc' = "read_fields"
    /\ UNCHANGED <<env, i, locals, counters, lists, disk, fetch_log, outcomes>>

(* main.py:46-52: coin['id'] raises KeyError when the key is missing; *)
(* coin['symbol'].upper() raises when the symbol is missing or None   *)
ReadFields ==
    /\ pc = "read_fields"
    /\ IF coin.fields = "no_id"
       THEN /\ pc' = "except"
            /\ UNCHANGED <<coin_name, coin_symbol>>
       ELSE /\ coin_name' = coin.id
            /\ IF coin.fields = "no_symbol"
               THEN /\ pc' = "except"
                    /\ UNCHANGED coin_symbol
               ELSE /\ coin_symbol' = Upper(coin.symbol)
                    /\ pc' = "fetch"
    /\ UNCHANGED <<env, i, df, counters, lists, disk, fetch_log, outcomes>>

(* main.py:55-56 *)
FetchHistory ==
    /\ pc = "fetch"
    /\ fetch_log' = Append(fetch_log, [rank |-> i, count |-> successful_count])
    /\ IF coin.hist.raises
       THEN /\ pc' = "except"
            /\ UNCHANGED df
       ELSE /\ df' = Table(coin.hist.rows, coin.hist.cols)
            /\ pc' = "check_empty"
    /\ UNCHANGED <<env, i, coin_name, coin_symbol, counters, lists, disk, outcomes>>

(* DataFrame.empty, main.py:58: no rows, or no columns *)
IsEmptyNever(t) == FALSE

IsEmpty(t) == t.rows = 0 \/ Len(t.cols) = 0

(* failed_downloads += 1, main.py:60 and main.py:116 *)
CountFailureForgotten(count) == count

CountFailure(count) == count + 1

(* main.py:58-61: an empty table is a skip; continue with the next candidate *)
CheckEmptyNoContinue ==
    /\ pc = "check_empty"
    /\ failed_downloads' = (IF IsEmpty(df) THEN CountFailure(failed_downloads) ELSE failed_downloads)
    /\ pc' = "features"
    /\ UNCHANGED <<env, i, locals, successful_count, lists, disk, fetch_log, outcomes>>

CheckEmpty ==
    /\ pc = "check_empty"
    /\ IF IsEmpty(df)
       THEN /\ failed_downloads' = CountFailure(failed_downloads)
            /\ outcomes' = Append(outcomes, "skip")
            /\ i' = i + 1
            /\ pc' = "loop"
       ELSE /\ pc' = "features"
            /\ UNCHANGED <<failed_downloads, outcomes, i>>
    /\ UNCHANGED <<env, locals, successful_count, lists, disk, fetch_log>>

(* main.py:64-75: derived columns, reset_index, df = df[columns] *)
ComputeFeatures ==
    /\ pc = "features"
    /\ IF CanEnrich(df) /\ CanSelect(ResetIndex(Enrich(df)), columns)
       THEN /\ df' = SelectColumns(ResetIndex(Enrich(df)), columns)
            /\ pc' = "save"
       ELSE /\ pc' = "except"
            /\ UNCHANGED df
    /\ UNCHANGED <<env, i, coin_name, coin_symbol, counters, lists, disk, fetch_log, outcomes>>

(* main.py:78-80: df.to_csv(filepath, index=False) *)
SaveCsv ==
    /\ pc = "save"
    /\ IF coin.disk = "ok"
       THEN /\ asset_files' = Append(asset_files, [file |-> Filename(coin_name, coin_symbol), table |-> df])
            /\ pc' = "record"
       ELSE /\ pc' = "except"
            /\ UNCHANGED asset_files
    /\ UNCHANGED <<env, i, locals, counters, lists, dirs_made, directory_csv, metadata_json, fetch_log, outcomes>>

(* main.py:86-90 *)
DirectoryEntryZeroBased(count, name, file) == [Index |-> count - 1, name |-> name, file |-> file]

DirectoryEntry(count, name, file) == [Index |-> count, name |-> name, file |-> file]

(* main.py:96-102 *)
ColumnsMetadata(cs) == [k \in 1..Len(cs) |-> cs[k]]

(* main.py:105-109 *)
FileMeta(file, cs) == [path |-> <<"crypto_top100/", file>>, columns |-> ColumnsMetadata(cs)]

(* main.py:83-112: count the success, append the directory entry and the resource *)
Record ==
    /\ pc = "record"
    /\ successful_count' = successful_count + 1
    /\ crypto_directory_data' = Append(crypto_directory_data, DirectoryEntry(successful_count', coin_name, Filename(coin_name, coin_symbol)))
    /\ files_metadata' = Append(files_metadata, FileMeta(Filename(coin_name, coin_symbol), columns))
    /\ outcomes' = Append(outcomes, "success")
    /\ i' = i + 1
    /\ pc' = "loop"
    /\ UNCHANGED <<env, locals, failed_downloads, disk, fetch_log>>

(* main.py:114-116: the handler formats coin_name; when line 46 never *)
(* bound it, that read raises NameError inside the handler            *)
Except ==
    /\ pc = "except"
    /\ IF coin_name = Unbound
       THEN /\ pc' = "uncaught"
            /\ UNCHANGED <<failed_downloads, outcomes, i>>
       ELSE /\ failed_downloads' = CountFailure(failed_downloads)
            /\ outcomes' = Append(outcomes, "error")
            /\ i' = i + 1
            /\ pc' = "loop"
    /\ UNCHANGED <<env, locals, successful_count, lists, disk, fetch_log>>

(* KeyboardInterrupt is not an Exception: no handler, the process exits *)
Interrupt ==
    /\ pc \in LoopPositions
    /\ pc' = "interrupted"
    /\ UNCHANGED <<env, i, locals, counters, lists, disk, fetch_log, outcomes>>

(* main.py:123-125 *)
WriteIndex ==
    /\ pc = "write_index"
    /\ directory_csv' = Written(crypto_directory_data)
    /\ pc' = "write_manifest"
    /\ UNCHANGED <<env, i, locals, counters, lists, dirs_made, asset_files, metadata_json, fetch_log, outcomes>>

(* main.py:135-139 *)
dir_file_meta == [path |-> <<"crypto_directory.csv">>, columns |-> dir_columns]

(* main.py:140 and main.py:261-288 *)
WriteManifest ==
    /\ pc = "write_manifest"
    /\ files_metadata' = <<dir_file_meta>> \o files_metadata
    /\ metadata_json' = Written(files_metadata')
    /\ pc' = "done"
    /\ UNCHANGED <<env, i, locals, counters, crypto_directory_data, dirs_made, asset_files, directory_csv, fetch_log, outcomes>>

Next ==
    \/ MakeDirs
    \/ RankingCall
    \/ LoopHead
    \/ ReadFields
    \/ FetchHistory
    \/ CheckEmpty
    \/ ComputeFeatures
    \/ SaveCsv
    \/ Record
    \/ Except
    \/ Interrupt
    \/ WriteIndex
    \/ WriteManifest

Spec == Init /\ [][Next]_vars

TypeOK ==
    /\ pc \in LoopPositions \cup {"makedirs", "ranking", "write_index", "write_manifest", "done", "uncaught", "interrupted"}
    /\ successful_count \in 0..MaxCoins
    /\ failed_downloads \in 0..MaxCoins
    /\ i \in 1..(MaxCoins + 1)

(***************************************************************************)
(* The feature computation on its own: one candidate whose history is any  *)
(* table of 0..MaxRows rows, with or without the columns lines 64-75 read, *)
(* taken from the call of ticker.history to the end of line 75.            *)
(***************************************************************************)
RawColumnSets == {YF_COLUMNS, Without(YF_COLUMNS, "Close"), Without(YF_COLUMNS, "High"), Without(YF_COLUMNS, "Low"), Without(YF_COLUMNS, "Volume")}

InitEnrich ==
    /\ pc = "fetch"
    /\ ranking_ok = TRUE
    /\ \E n \in 0..MaxRows, cs \in RawColumnSets : top_coins = <<Coin(1, "ok", Response(FALSE, n, cs), "ok")>>
    /\ i = 1
    /\ coin_name = 1
    /\ coin_symbol = Upper(<<"sym", 1>>)
    /\ df = NoTable
    /\ successful_count = 0
    /\ failed_downloads = 0
    /\ crypto_directory_data = <<>>
    /\ files_metadata = <<>>
    /\ dirs_made = TRUE
    /\ asset_files = <<>>
    /\ directory_csv = NotWritten
    /\ metadata_json = NotWritten
    /\ fetch_log = <<>>
    /\ outcomes = <<>>

NextEnrich ==
    \/ FetchHistory
    \/ CheckEmpty
    \/ ComputeFeatures

SpecEnrich == InitEnrich /\ [][NextEnrich]_vars

(***************************************************************************)
(* Vocabulary of the properties.                                           *)
(***************************************************************************)
LoopEnded == pc \in {"write_index", "write_manifest", "done"}

(* the candidate's record is readable and the provider returned a table *)
Fetched(c) == c.fields = "ok" /\ ~c.hist.raises

BaseColumns == {"Open", "High", "Low", "Close", "Volume"}

(* a candidate yields viable data: a non-empty table with the base columns, written without error *)
Viable(c) == Fetched(c) /\ c.hist.rows >= 1 /\ BaseColumns \subseteq Range(c.hist.cols) /\ c.disk = "ok"

NumViable == Cardinality({k \in 1..Len(top_coins) : Viable(top_coins[k])})

(* the candidates whose iteration is over *)
Examined == 1..Len(outcomes)

RECURSIVE ViableIdsUpTo(_)
ViableIdsUpTo(k) == IF k = 0 THEN <<>> ELSE IF Viable(top_coins[k]) THEN Append(ViableIdsUpTo(k - 1), top_coins[k].id) ELSE ViableIdsUpTo(k - 1)

RECURSIVE IsSubsequence(_, _)
IsSubsequence(s, t) == IF s = <<>> THEN TRUE ELSE IF t = <<>> THEN FALSE ELSE IF Head(s) = Head(t) THEN IsSubsequence(Tail(s), Tail(t)) ELSE IsSubsequence(s, Tail(t))

AssetResources(meta) == SelectSeq(meta, LAMBDA r : r.path[1] = "crypto_top100/")

FilesNamed(name) == {k \in 1..Len(asset_files) : asset_files[k].file[1] = name}

EntriesNamed(name) == {k \in 1..Len(crypto_directory_data) : crypto_directory_data[k].name = name}

ResourcesNamed(name) == {k \in 1..Len(files_metadata) : files_metadata[k].path[1] = "crypto_top100/" /\ files_metadata[k].path[2][1] = name}

NoArtifacts(name) == FilesNamed(name) = {} /\ EntriesNamed(name) = {} /\ ResourcesNamed(name) = {}

(***************************************************************************)
(* C1: the loop never emits more than TARGET_COUNT asset outputs, and no   *)
(* history fetch is made once successful_count has reached TARGET_COUNT.   *)
(***************************************************************************)
C1_NeverBeyondTarget ==
    /\ Len(asset_files) <= TARGET_COUNT
    /\ Len(crypto_directory_data) <= TARGET_COUNT
    /\ successful_count <= TARGET_COUNT
    /\ \A k \in 1..Len(fetch_log) : fetch_log[k].count < TARGET_COUNT

(* the target was reached with candidates left, and none of them was fetched *)
C1_Witness ==
    /\ pc = "done"
    /\ successful_count = TARGET_COUNT
    /\ i <= Len(top_coins)
    /\ \A k \in 1..Len(fetch_log) : fetch_log[k].rank < i

C3_DirectoryInRankOrder ==
    /\ \A k \in 1..Len(crypto_directory_data) : crypto_directory_data[k].Index = k
    /\ pc \in {"loop"} \cup {"write_index", "write_manifest", "done"} =>
          [k \in 1..Len(crypto_directory_data) |-> crypto_directory_data[k].name] = ViableIdsUpTo(Len(outcomes))
    /\ directory_csv # NotWritten => directory_csv = Written(crypto_directory_data)

(* [A viable, B empty, C viable] gives [A, C] with indices 1 and 2 *)
C3_Witness ==
    /\ pc = "done"
    /\ Len(top_coins) = 3
    /\ Viable(top_coins[1]) /\ Viable(top_coins[3])
    /\ Fetched(top_coins[2]) /\ top_coins[2].hist.rows = 0
    /\ directory_csv = Written(<<DirectoryEntry(1, 1, Filename(1, <<"SYM", 1>>)), DirectoryEntry(2, 3, Filename(3, <<"SYM", 3>>))>>)

(***************************************************************************)
(* C4: an exception raised while one candidate is processed is a skip of   *)
(* that candidate only; it never aborts the run, so once the ranking call  *)
(* has returned the script never dies of an uncaught exception.            *)
(***************************************************************************)
C4_ExceptionNeverAborts == ranking_ok => pc # "uncaught"

(***************************************************************************)
(* C5: a run interrupted in the candidate loop after N successes has, when *)
(* the process exits, written the index with N rows and the manifest with  *)
(* N asset resources plus the directory resource.                          *)
(***************************************************************************)
C5_InterruptStillFlushes ==
    pc = "interrupted" => /\ directory_csv = Written(crypto_directory_data)
                          /\ Len(crypto_directory_data) = successful_count
                          /\ metadata_json # NotWritten
                          /\ Len(metadata_json[1]) = successful_count + 1

(***************************************************************************)
(* C6: the column list of every asset resource in the manifest is a        *)
(* subsequence of the canonical field list, in canonical order, and is     *)
(* exactly the column list of that asset's persisted table.                *)
(***************************************************************************)
ResourceMatchesTable(r) ==
    /\ IsSubsequence(r.columns, COLUMN_DESCRIPTIONS)
    /\ \E k \in 1..Len(asset_files) : asset_files[k].file = r.path[2]
    /\ \A k \in 1..Len(asset_files) : asset_files[k].file = r.path[2] => asset_files[k].table.cols = r.columns

C6_SchemaMatchesTable ==
    /\ \A k \in 1..Len(files_metadata) : files_metadata[k].path[1] = "crypto_top100/" => ResourceMatchesTable(files_metadata[k])
    /\ metadata_json # NotWritten =>
          \A k \in 1..Len(metadata_json[1]) : metadata_json[1][k].path[1] = "crypto_top100/" => ResourceMatchesTable(metadata_json[1][k])

(* the manifest is written and describes a table too short for a 30-day average *)
C6_Witness ==
    /\ pc = "done"
    /\ \E k \in 1..Len(asset_files) :
          /\ asset_files[k].table.rows < SMA_30_WINDOW
          /\ \E m \in 1..Len(metadata_json[1]) : metadata_json[1][m].path = <<"crypto_top100/", asset_files[k].file>>

C9_RankingFailureIsFatal ==
    ~ranking_ok => /\ pc \in {"makedirs", "ranking", "uncaught"}
                   /\ fetch_log = <<>>
                   /\ asset_files = <<>>
                   /\ directory_csv = NotWritten
                   /\ metadata_json = NotWritten

(* the ranking call has failed and the script has died of it *)
C9_Witness == ~ranking_ok /\ pc = "uncaught" /\ dirs_made

(***************************************************************************)
(* C10: at every loop boundary the directory, the asset resources and      *)
(* successful_count agree and successful_count + failed_downloads is the   *)
(* number of candidates examined; at the end the manifest holds the        *)
(* directory resource first, then successful_count asset resources.        *)
(***************************************************************************)
C10_Bookkeeping ==
    /\ pc = "loop" => /\ Len(crypto_directory_data) = successful_count
                      /\ Len(files_metadata) = successful_count
                      /\ Len(AssetResources(files_metadata)) = successful_count
                      /\ successful_count + failed_downloads = i - 1
                      /\ i - 1 = Len(outcomes)
    /\ pc = "done" => /\ Len(files_metadata) = successful_count + 1
                      /\ files_metadata[1] = dir_file_meta
                      /\ Len(AssetResources(files_metadata)) = successful_count
                      /\ metadata_json = Written(files_metadata)
                      /\ successful_count + failed_downloads = i - 1

(* a finished run with successes and failures both counted *)
C10_Witness ==
    /\ pc = "done"
    /\ successful_count >= 1
    /\ failed_downloads >= 1
    /\ Len(metadata_json[1]) = successful_count + 1

====
